---------------------------- MODULE Spec2Model ----------------------------
(***************************************************************************)
(* The OSG Flocking report of gracc-reporting                              *)
(* (src/src/reports/osg_reports/OSGFlockingReporter.py).                   *)
(*                                                                         *)
(* FlockingReport.query builds an Elasticsearch request (three filters,    *)
(* four nested terms aggregations and a sum metric), generate walks the    *)
(* nested buckets of the response and yields one tuple per project bucket, *)
(* and format_report folds the tuples into the columns of the report and   *)
(* appends a total row.                                                    *)
(*                                                                         *)
(* Strings that flow through the program as data (bucket keys, field       *)
(* values, the configured probe list, the cells of the report) are         *)
(* sequences of one-character strings, so that re.split can be computed    *)
(* and the empty string '' is the empty sequence.  Column names, which     *)
(* are only used as dictionary keys, are TLA+ strings.                     *)
(*                                                                         *)
(* Wall hours are floating-point numbers in the program.  They are        *)
(* modelled as naturals with a significand of MantBits bits: an addition   *)
(* rounds its exact result to the nearest such number (ties to even), so   *)
(* that, as for IEEE doubles, addition is not associative and the order    *)
(* of a summation is observable.                                           *)
(***************************************************************************)
EXTENDS Integers, Sequences, FiniteSets, TLC

\* Bounds of the model.
MaxNodes == 8
MaxCalls == 2
MantBits == 4
MaxDocs == 2
MaxCfgLen == 2

---------------------------------------------------------------------------
\* Strings

Str_A == <<"A">>
Str_B == <<"B">>
Str_VO1 == <<"V", "O", "1">>
Str_VO2 == <<"V", "O", "2">>
Str_P1 == <<"P", "1">>
Str_P2 == <<"P", "2">>
Str_Proj1 == <<"P", "r", "o", "j", "1">>
Str_Proj2 == <<"P", "r", "o", "j", "2">>
Str_a == <<"a">>
Str_b == <<"b">>
Str_Empty == <<>>
Str_Total == <<"T", "o", "t", "a", "l">>
Str_NA == <<"N", "/", "A">>
Str_Payload == <<"P", "a", "y", "l", "o", "a", "d">>
Str_Batch == <<"B", "a", "t", "c", "h">>

Min(a, b) == IF a <= b THEN a ELSE b

---------------------------------------------------------------------------
\* Floating-point addition, with a significand of MantBits bits

RECURSIVE Pow2(_)
Pow2(n) == IF n = 0 THEN 1 ELSE 2 * Pow2(n - 1)

\* The number of low bits of n that do not fit the significand.
RECURSIVE ExcessBits(_)
ExcessBits(n) == IF n < Pow2(MantBits) THEN 0 ELSE 1 + ExcessBits(n \div 2)

\* n rounded to the nearest representable number, ties to the even significand.
RoundNearestEven(n) ==
    LET e == ExcessBits(n)
        unit == Pow2(e)
        q == n \div unit
        r == n % unit
    IN  IF e = 0 THEN n
        ELSE IF 2 * r > unit \/ (2 * r = unit /\ q % 2 = 1)
             THEN (q + 1) * unit
             ELSE q * unit

\* x + y of two floats
FloatAdd(x, y) == RoundNearestEven(x + y)

\* sum(values): the accumulator starts at 0 and takes the items in order.
RECURSIVE SumFrom(_, _)
SumFrom(acc, values) ==
    IF values = <<>> THEN acc
    ELSE SumFrom(FloatAdd(acc, Head(values)), Tail(values))

\* sum with the items taken from the last to the first.
RECURSIVE SumFromLast(_, _)
SumFromLast(acc, values) ==
    IF values = <<>> THEN acc
    ELSE SumFromLast(FloatAdd(acc, values[Len(values)]), SubSeq(values, 1, Len(values) - 1))

sum_FromLast(values) == SumFromLast(0, values)

sum(values) == SumFrom(0, values)


---------------------------------------------------------------------------
\* The response of the search: four nested levels of buckets.
\*   results.group_Site                  the site buckets
\*   site.key, site.group_VOName         a site bucket
\*   vo.key, vo.group_ProbeName          a VO bucket
\*   probe.key, probe.group_ProjectName  a probe bucket
\*   project.key, project.CoreHours_sum  a project bucket and its metric
\* (the .buckets and .value attribute steps are elided).

\* The keys of each level and the metric values the bounded responses use.
SiteKeys == <<Str_A, Str_B>>
VOKeys == <<Str_VO1, Str_VO2>>
ProbeKeys == <<Str_P1, Str_P2>>
ProjectKeys == <<Str_Proj1, Str_Proj2>>
Hours == {5, 10, 16}

LevelKeys(level) ==
    CASE level = 1 -> SiteKeys
      [] level = 2 -> VOKeys
      [] level = 3 -> ProbeKeys
      [] level = 4 -> ProjectKeys

MakeBucket(level, key, child) ==
    CASE level = 1 -> [key |-> key, group_VOName |-> child]
      [] level = 2 -> [key |-> key, group_ProbeName |-> child]
      [] level = 3 -> [key |-> key, group_ProjectName |-> child]
      [] level = 4 -> [key |-> key, CoreHours_sum |-> child]

\* The lists of buckets of `level` that hold exactly `nodes` buckets of all
\* levels: no bucket, one bucket (with the first key of the level: keys are
\* only passed through), or two buckets in either order of their keys.  (The
\* keys of a terms aggregation are distinct.)
RECURSIVE BucketLists(_, _)
BucketLists(level, nodes) ==
    LET k == LevelKeys(level)
        Children(n) == IF level = 4 THEN (IF n = 0 THEN Hours ELSE {})
                       ELSE BucketLists(level + 1, n)
    IN  (IF nodes = 0 THEN {<<>>} ELSE {})
        \cup
        (IF nodes < 1 THEN {}
         ELSE { <<MakeBucket(level, k[1], c)>> : c \in Children(nodes - 1) })
        \cup
        (IF nodes < 2 THEN {}
         ELSE UNION { { <<MakeBucket(level, ks[1], c1), MakeBucket(level, ks[2], c2)>> :
                          c1 \in Children(n), c2 \in Children(nodes - 2 - n),
                          ks \in {<<k[1], k[2]>>, <<k[2], k[1]>>} } :
                      n \in 0..(nodes - 2) })

\* The responses the search may give: every tree of at most MaxNodes buckets.
Responses ==
    { [hits |-> <<>>, group_Site |-> b] :
        b \in UNION { BucketLists(1, n) : n \in 0..MaxNodes } }

---------------------------------------------------------------------------
\* State

VARIABLES
    cluster,     \* the search cluster: the documents it holds, or the response it gives
    probes,      \* the configured flocking_probe_list, a comma-delimited string
    starttimeq,  \* the start of the report range, as sent in the request
    endtimeq,    \* the end of the report range, as sent in the request
    s,           \* the last request query() built
    pc,          \* where format_report stands: "idle" (not running) or "loop"
    calls,       \* the calls of format_report so far
    report,      \* format_report's local dictionary of columns
    gen,         \* the generator format_report iterates
    returned,    \* the reports format_report returned, one per call
    gens,        \* the generators a caller of generate() holds
    out          \* what the caller has received from each of them so far

vars == <<cluster, probes, starttimeq, endtimeq, s, pc, calls, report, gen,
          returned, gens, out>>

\* self.header, set in __init__
header == <<"VOName", "SiteName", "ProbeName", "ProjectName", "Wall Hours">>

\* MAXINT = 2**31 - 1
MAXINT == 2147483647

---------------------------------------------------------------------------
\* query

\* re.split(',', string): the pieces between the commas, '' included.
RECURSIVE SplitFrom(_, _, _)
SplitFrom(string, piece, pieces) ==
    IF string = <<>> THEN Append(pieces, piece)
    ELSE IF Head(string) = ","
         THEN SplitFrom(Tail(string), <<>>, Append(pieces, piece))
         ELSE SplitFrom(Tail(string), Append(piece, Head(string)), pieces)

split(string) == SplitFrom(string, <<>>, <<>>)

\* query_filters with the end of the range included.
query_filters_EndIncluded ==
    LET probeslist == split(probes)
    IN  << [type |-> "range", field |-> "EndTime",
            lower |-> [op |-> "gte", value |-> starttimeq],
            upper |-> [op |-> "lte", value |-> endtimeq]],
           [type |-> "terms", field |-> "ProbeName", values |-> probeslist],
           [type |-> "term", field |-> "ResourceType", value |-> Str_Payload] >>

\* The three filters of the request: EndTime in [starttimeq, endtimeq),
\* ProbeName among the pieces of the configured list, ResourceType Payload.
query_filters ==
    LET probeslist == split(probes)
    IN  << [type |-> "range", field |-> "EndTime",
            lower |-> [op |-> "gte", value |-> starttimeq],
            upper |-> [op |-> "lt", value |-> endtimeq]],
           [type |-> "terms", field |-> "ProbeName", values |-> probeslist],
           [type |-> "term", field |-> "ResourceType", value |-> Str_Payload] >>

\* Bucket without the missing='N/A' of the innermost aggregation.
Bucket_NoMissing ==
    << [name |-> "group_Site", type |-> "terms", field |-> "SiteName",
        missing |-> <<>>, size |-> MAXINT],
       [name |-> "group_VOName", type |-> "terms", field |-> "ReportableVOName",
        missing |-> <<>>, size |-> MAXINT],
       [name |-> "group_ProbeName", type |-> "terms", field |-> "ProbeName",
        missing |-> <<>>, size |-> MAXINT],
       [name |-> "group_ProjectName", type |-> "terms", field |-> "ProjectName",
        missing |-> <<>>, size |-> MAXINT] >>

\* The four nested terms aggregations, outermost first.  `missing` is <<>>
\* where the aggregation gives none.
Bucket ==
    << [name |-> "group_Site", type |-> "terms", field |-> "SiteName",
        missing |-> <<>>, size |-> MAXINT],
       [name |-> "group_VOName", type |-> "terms", field |-> "ReportableVOName",
        missing |-> <<>>, size |-> MAXINT],
       [name |-> "group_ProbeName", type |-> "terms", field |-> "ProbeName",
        missing |-> <<>>, size |-> MAXINT],
       [name |-> "group_ProjectName", type |-> "terms", field |-> "ProjectName",
        missing |-> <<Str_NA>>, size |-> MAXINT] >>

\* The Search object query() returns: the filters, the slice [0:0], the
\* aggregations and the sum metric under the innermost of them.
query ==
    [filters |-> query_filters,
     from |-> 0,
     size |-> 0,
     aggs |-> Bucket,
     metric |-> [name |-> "CoreHours_sum", type |-> "sum", field |-> "CoreHours"]]

---------------------------------------------------------------------------
\* The request as Elasticsearch evaluates it.  A document maps each field
\* name to <<>> (the field is absent) or <<value>>.

\* Whether document d passes one filter of the request.
Matches(filter, d) ==
    LET v == d[filter.field]
    IN  /\ v # <<>>
        /\ CASE filter.type = "range" ->
                    /\ IF filter.lower.op = "gte" THEN filter.lower.value <= v[1]
                                                  ELSE filter.lower.value < v[1]
                    /\ IF filter.upper.op = "lte" THEN v[1] <= filter.upper.value
                                                  ELSE v[1] < filter.upper.value
             [] filter.type = "terms" ->
                    \E i \in 1..Len(filter.values) : filter.values[i] = v[1]
             [] filter.type = "term" -> filter.value = v[1]

\* Whether document d passes every filter of the request.
Selected(request, d) ==
    \A i \in 1..Len(request.filters) : Matches(request.filters[i], d)

CharCode(c) ==
    CASE c = "," -> 44 [] c = "/" -> 47 [] c = "1" -> 49 [] c = "2" -> 50
      [] c = "A" -> 65 [] c = "B" -> 66 [] c = "N" -> 78 [] c = "O" -> 79
      [] c = "P" -> 80 [] c = "T" -> 84 [] c = "V" -> 86 [] c = "a" -> 97
      [] c = "b" -> 98 [] c = "c" -> 99 [] c = "d" -> 100 [] c = "h" -> 104
      [] c = "j" -> 106 [] c = "l" -> 108 [] c = "o" -> 111 [] c = "r" -> 114
      [] c = "t" -> 116 [] c = "y" -> 121

\* Whether string a sorts before string b.
RECURSIVE StrLess(_, _)
StrLess(a, b) ==
    IF b = <<>> THEN FALSE
    ELSE IF a = <<>> THEN TRUE
    ELSE IF Head(a) = Head(b) THEN StrLess(Tail(a), Tail(b))
    ELSE CharCode(Head(a)) < CharCode(Head(b))

\* The key a terms aggregation files document d under: its value of the
\* field, the aggregation's `missing` value where the document has none,
\* and <<>> (the document is in no bucket) where neither exists.
BucketKey(agg, d) == IF d[agg.field] # <<>> THEN d[agg.field] ELSE agg.missing

DocsOfKey(agg, docs, key) == SelectSeq(docs, LAMBDA d : BucketKey(agg, d) = <<key>>)

\* The keys of a terms aggregation in the order of its buckets: the larger
\* document count first, and the smaller key first among equal counts.
RECURSIVE OrderedKeys(_, _, _)
OrderedKeys(agg, docs, keys) ==
    IF keys = {} THEN <<>>
    ELSE LET count(k) == Len(DocsOfKey(agg, docs, k))
             first == CHOOSE k \in keys :
                          \A o \in keys \ {k} :
                              \/ count(k) > count(o)
                              \/ count(k) = count(o) /\ StrLess(k, o)
         IN  <<first>> \o OrderedKeys(agg, docs, keys \ {first})

\* The sum metric: the values of the field, added in document order.
SumMetric(metric, docs) ==
    LET having == SelectSeq(docs, LAMBDA d : d[metric.field] # <<>>)
    IN  sum([i \in 1..Len(having) |-> having[i][metric.field][1]])

\* The buckets of the aggregation of `level` over docs, each holding the
\* aggregation of the next level under that aggregation's name, and the
\* innermost the metric under its name.
RECURSIVE Aggregate(_, _, _)
Aggregate(request, level, docs) ==
    LET agg == request.aggs[level]
        keys == OrderedKeys(agg, docs,
                            { BucketKey(agg, docs[i])[1] :
                                i \in { j \in 1..Len(docs) : BucketKey(agg, docs[j]) # <<>> } })
        bucket(k) ==
            IF level = Len(request.aggs)
            THEN ("key" :> k) @@
                 (request.metric.name :> SumMetric(request.metric, DocsOfKey(agg, docs, k)))
            ELSE ("key" :> k) @@
                 (request.aggs[level + 1].name :>
                      Aggregate(request, level + 1, DocsOfKey(agg, docs, k)))
    IN  [i \in 1..Min(Len(keys), agg.size) |-> bucket(keys[i])]

\* The response of the cluster to the request.
Execute(request, docs) ==
    LET matching == SelectSeq(docs, LAMBDA d : Selected(request, d))
    IN  ("hits" :> SubSeq(matching, request.from + 1, request.from + request.size)) @@
        (request.aggs[1].name :> Aggregate(request, 1, matching))

---------------------------------------------------------------------------
\* generate

\* run_query(): the request of query() is sent to the cluster.  The cluster
\* either holds documents and evaluates the request over them, or stands for
\* any search back end and gives its response.
run_query ==
    IF cluster.kind = "documents"
    THEN Execute(query, cluster.docs)
    ELSE cluster.response

\* A generator object: "none" before generate() is called, "created" until
\* the first next(), "suspended" at the yield, "finished" once exhausted.
\* site, vo, probe and project are the positions of the four loops.
NoGenerator ==
    [state |-> "none", results |-> [hits |-> <<>>, group_Site |-> <<>>],
     site |-> 0, vo |-> 0, probe |-> 0, project |-> 0]

\* generate(): calling a generator function runs none of its body.
generate == [NoGenerator EXCEPT !.state = "created"]

\* Loops with the project position not reset when the probe loop moves on.
RECURSIVE Loops_ProjectNotReset(_, _, _, _, _)
Loops_ProjectNotReset(results, i, j, k, l) ==
    IF i > Len(results.group_Site)
    THEN [state |-> "finished", results |-> results,
          site |-> 0, vo |-> 0, probe |-> 0, project |-> 0]
    ELSE LET site == results.group_Site[i] IN
         IF j > Len(site.group_VOName)
         THEN Loops_ProjectNotReset(results, i + 1, 1, 1, 1)
         ELSE LET vo == site.group_VOName[j] IN
              IF k > Len(vo.group_ProbeName)
              THEN Loops_ProjectNotReset(results, i, j + 1, 1, 1)
              ELSE LET probe == vo.group_ProbeName[k] IN
                   IF l > Len(probe.group_ProjectName)
                   THEN Loops_ProjectNotReset(results, i, j, k + 1, l)
                   ELSE [state |-> "suspended", results |-> results,
                         site |-> i, vo |-> j, probe |-> k, project |-> l]

\* The four nested loops, entered at positions i, j, k, l: the generator
\* runs to the next yield, or off the end of the outermost loop.
RECURSIVE Loops(_, _, _, _, _)
Loops(results, i, j, k, l) ==
    IF i > Len(results.group_Site)
    THEN [state |-> "finished", results |-> results,
          site |-> 0, vo |-> 0, probe |-> 0, project |-> 0]
    ELSE LET site == results.group_Site[i] IN
         IF j > Len(site.group_VOName)
         THEN Loops(results, i + 1, 1, 1, 1)
         ELSE LET vo == site.group_VOName[j] IN
              IF k > Len(vo.group_ProbeName)
              THEN Loops(results, i, j + 1, 1, 1)
              ELSE LET probe == vo.group_ProbeName[k] IN
                   IF l > Len(probe.group_ProjectName)
                   THEN Loops(results, i, j, k + 1, 1)
                   ELSE [state |-> "suspended", results |-> results,
                         site |-> i, vo |-> j, probe |-> k, project |-> l]

\* The callers of generate(): each holds the generator of its own call.
Callers == {"first", "second"}

\* Resume with the traversal shared between the generators: once one of
\* them has run off the end, every other is exhausted too.
Resume_SharedTraversal(g) ==
    IF \E c \in Callers : gens[c].state = "finished"
    THEN [state |-> "finished", results |-> g.results,
          site |-> 0, vo |-> 0, probe |-> 0, project |-> 0]
    ELSE IF g.state = "created"
         THEN Loops(run_query, 1, 1, 1, 1)
         ELSE Loops(g.results, g.site, g.vo, g.probe, g.project + 1)

\* next(g): the first one runs the query and enters the loops, a later one
\* resumes after the yield.
Resume(g) ==
    IF g.state = "created"
    THEN Loops(run_query, 1, 1, 1, 1)
    ELSE Loops(g.results, g.site, g.vo, g.probe, g.project + 1)

\* The tuple a suspended generator has yielded.
Yielded(g) ==
    LET site == g.results.group_Site[g.site]
        vo == site.group_VOName[g.vo]
        probe == vo.group_ProbeName[g.probe]
        project == probe.group_ProjectName[g.project]
    IN  <<site.key, vo.key, probe.key, project.key, project.CoreHours_sum>>

---------------------------------------------------------------------------
\* format_report

\* ZipDict with the last pair lost.
ZipDict_DropsLastPair(names, values) ==
    LET n == Min(Len(names), Len(values)) - 1
    IN  [name \in {names[i] : i \in 1..n} |->
            values[CHOOSE i \in 1..n :
                      names[i] = name /\ \A j \in (i + 1)..n : names[j] # name]]

\* dict(zip(names, values)): pairs by position up to the shorter length, a
\* later pair replacing an earlier one of the same name.
ZipDict(names, values) ==
    LET n == Min(Len(names), Len(values))
    IN  [name \in {names[i] : i \in 1..n} |->
            values[CHOOSE i \in 1..n :
                      names[i] = name /\ \A j \in (i + 1)..n : names[j] # name]]

\* EmptyColumns with the dictionary kept from the call before: only the
\* names not yet in it get an empty column.
EmptyColumns_KeptAcrossCalls ==
    [name \in {header[i] : i \in 1..Len(header)} |->
        IF name \in DOMAIN report THEN report[name] ELSE <<>>]

\* report = {}; for name in self.header: if name not in report: report[name] = []
EmptyColumns == [name \in {header[i] : i \in 1..Len(header)} |-> <<>>]

\* The cell the total row gets in column col.
TotalCell(col, tot) ==
    IF col = "VOName" THEN Str_Total
    ELSE IF col = "Wall Hours" THEN tot
    ELSE Str_Empty

\* AppendTotals that adds no total row to a report without data rows.
AppendTotals_NoneWhenEmpty(rep, cols, tot) ==
    IF rep["Wall Hours"] = <<>> THEN rep
    ELSE [name \in DOMAIN rep |-> Append(rep[name], TotalCell(name, tot))]

\* for col in cols: report[col].append(...)
RECURSIVE AppendTotals(_, _, _)
AppendTotals(rep, cols, tot) ==
    IF cols = <<>> THEN rep
    ELSE AppendTotals([rep EXCEPT ![Head(cols)] = Append(@, TotalCell(Head(cols), tot))],
                      Tail(cols), tot)

\* for key, item in mapdict.iteritems(): report[key].append(item)
AppendRow(rep, mapdict) ==
    [name \in DOMAIN rep |->
        IF name \in DOMAIN mapdict THEN Append(rep[name], mapdict[name]) ELSE rep[name]]

\* format_report is entered: the columns are created empty and generate() is called.
format_report_begin ==
    /\ pc = "idle"
    /\ calls < MaxCalls
    /\ calls' = calls + 1
    /\ report' = EmptyColumns
    /\ gen' = generate
    /\ pc' = "loop"
    /\ UNCHANGED <<cluster, probes, starttimeq, endtimeq, s, returned, gens, out>>

\* One iteration of the loop over generate(): a tuple is appended to the columns.
format_report_row ==
    /\ pc = "loop"
    /\ Resume(gen).state = "suspended"
    /\ gen' = Resume(gen)
    /\ s' = IF gen.state = "created" THEN query ELSE s
    /\ report' = AppendRow(report, ZipDict(header, Yielded(gen')))
    /\ UNCHANGED <<cluster, probes, starttimeq, endtimeq, pc, calls, returned, gens, out>>

\* The generator is exhausted: the total row is appended and the report returned.
format_report_total ==
    /\ pc = "loop"
    /\ Resume(gen).state = "finished"
    /\ gen' = Resume(gen)
    /\ s' = IF gen.state = "created" THEN query ELSE s
    /\ LET tot == sum(report["Wall Hours"])
       IN  report' = AppendTotals(report, header, tot)
    /\ returned' = Append(returned, report')
    /\ pc' = "idle"
    /\ UNCHANGED <<cluster, probes, starttimeq, endtimeq, calls, gens, out>>

---------------------------------------------------------------------------
\* A caller of generate()

generate_call(c) ==
    /\ pc = "idle"
    /\ gens[c].state = "none"
    /\ gens' = [gens EXCEPT ![c] = generate]
    /\ UNCHANGED <<cluster, probes, starttimeq, endtimeq, s, pc, calls, report, gen,
                   returned, out>>

generate_next(c) ==
    /\ pc = "idle"
    /\ gens[c].state \in {"created", "suspended"}
    /\ gens' = [gens EXCEPT ![c] = Resume(gens[c])]
    /\ s' = IF gens[c].state = "created" THEN query ELSE s
    /\ out' = IF gens'[c].state = "suspended"
              THEN [out EXCEPT ![c] = Append(@, Yielded(gens'[c]))]
              ELSE out
    /\ UNCHANGED <<cluster, probes, starttimeq, endtimeq, pc, calls, report, gen,
                   returned>>

---------------------------------------------------------------------------
\* Specifications

InitProgram ==
    /\ s = [filters |-> <<>>]
    /\ pc = "idle"
    /\ calls = 0
    /\ report = [name \in {} |-> <<>>]
    /\ gen = NoGenerator
    /\ returned = <<>>
    /\ gens = [c \in Callers |-> NoGenerator]
    /\ out = [c \in Callers |-> <<>>]

\* The search answers with any response of bounded size.
InitResponse ==
    /\ cluster \in { [kind |-> "response", response |-> r] : r \in Responses }
    /\ probes = Str_a
    /\ starttimeq = 1
    /\ endtimeq = 2
    /\ InitProgram

\* The documents of the cluster.  Each differs from a reference document
\* (site A, VO1, probe a, Proj1, 5 hours, ending at the start of the range,
\* Payload) either in one of the fields the filters read or in the fields the
\* aggregations read.
Doc(site, vo, probe, project, hours, endtime, resourcetype) ==
    [SiteName |-> site, ReportableVOName |-> vo, ProbeName |-> probe,
     ProjectName |-> project, CoreHours |-> <<hours>>, EndTime |-> <<endtime>>,
     ResourceType |-> <<resourcetype>>]

FilterCases ==
    { Doc(<<Str_A>>, <<Str_VO1>>, probe, <<Str_Proj1>>, 5, 1, Str_Payload) :
        probe \in {<<>>, <<Str_Empty>>, <<Str_a>>, <<Str_b>>} }
    \cup
    { Doc(<<Str_A>>, <<Str_VO1>>, <<Str_a>>, <<Str_Proj1>>, 5, t, Str_Payload) :
        t \in {0, 1, 2} }
    \cup
    { Doc(<<Str_A>>, <<Str_VO1>>, <<Str_a>>, <<Str_Proj1>>, 5, 1, rt) :
        rt \in {Str_Payload, Str_Batch} }

GroupCases ==
    { Doc(site, vo, <<Str_a>>, project, 5, 1, Str_Payload) :
        site \in {<<>>, <<Str_A>>},
        vo \in {<<>>, <<Str_VO1>>},
        project \in {<<>>, <<Str_Proj1>>} }
    \cup
    { Doc(<<Str_B>>, <<Str_VO1>>, <<Str_a>>, <<Str_Proj1>>, 10, 1, Str_Payload),
      Doc(<<Str_A>>, <<Str_VO1>>, <<Str_a>>, <<Str_NA>>, 10, 1, Str_Payload) }

Documents == FilterCases \cup GroupCases

RECURSIVE SeqsUpTo(_, _)
SeqsUpTo(S, n) ==
    IF n = 0 THEN {<<>>}
    ELSE LET shorter == SeqsUpTo(S, n - 1)
         IN  shorter \cup { Append(q, e) : q \in shorter, e \in S }

\* The cluster holds any documents, and the probe list is any short string.
Init ==
    /\ cluster \in { [kind |-> "documents", docs |-> d] : d \in SeqsUpTo(Documents, MaxDocs) }
    /\ probes \in SeqsUpTo({"a", ","}, MaxCfgLen)
    /\ starttimeq = 1
    /\ endtimeq = 2
    /\ InitProgram

NextReport ==
    \/ format_report_begin
    \/ format_report_row
    \/ format_report_total

NextFlatten ==
    \/ \E c \in Callers : generate_call(c)
    \/ \E c \in Callers : generate_next(c)

Next == NextReport

\* The report over the documents of a cluster
Spec == Init /\ [][Next]_vars

\* format_report over any response
SpecReport == InitResponse /\ [][NextReport]_vars

\* generate(), called up to twice and consumed in any interleaving, over any response
SpecFlatten == InitResponse /\ [][NextFlatten]_vars

---------------------------------------------------------------------------
\* Definitions the properties are stated with

\* The positions <<i, j, k, l>> of the project buckets of a response.
LeafPositions(results) ==
    UNION { UNION { UNION { { <<i, j, k, l>> :
        l \in 1..Len(results.group_Site[i].group_VOName[j].group_ProbeName[k].group_ProjectName) } :
        k \in 1..Len(results.group_Site[i].group_VOName[j].group_ProbeName) } :
        j \in 1..Len(results.group_Site[i].group_VOName) } :
        i \in 1..Len(results.group_Site) }

\* The leaf at a position: site key, VO key, probe key, project key, metric.
LeafAt(results, pos) ==
    LET site == results.group_Site[pos[1]]
        vo == site.group_VOName[pos[2]]
        probe == vo.group_ProbeName[pos[3]]
        project == probe.group_ProjectName[pos[4]]
    IN  <<site.key, vo.key, probe.key, project.key, project.CoreHours_sum>>

\* The concatenation of a sequence of sequences.
RECURSIVE Concat(_)
Concat(seqs) == IF seqs = <<>> THEN <<>> ELSE Head(seqs) \o Concat(Tail(seqs))

\* The leaves of a response, depth first, in the order of the buckets of each level.
DepthFirst(results) ==
    Concat([i \in 1..Len(results.group_Site) |->
      LET site == results.group_Site[i] IN
      Concat([j \in 1..Len(site.group_VOName) |->
        LET vo == site.group_VOName[j] IN
        Concat([k \in 1..Len(vo.group_ProbeName) |->
          LET probe == vo.group_ProbeName[k] IN
          [l \in 1..Len(probe.group_ProjectName) |->
             <<site.key, vo.key, probe.key, probe.group_ProjectName[l].key,
               probe.group_ProjectName[l].CoreHours_sum>>]])])])

IsPrefix(a, b) == Len(a) <= Len(b) /\ \A i \in 1..Len(a) : a[i] = b[i]

\* The number of rows of a report, and its row r in the order of the
\* columns VOName, SiteName, ProbeName, ProjectName, Wall Hours.
Rows(rep) == Len(rep["Wall Hours"])

RowOf(rep, r) ==
    <<rep["VOName"][r], rep["SiteName"][r], rep["ProbeName"][r], rep["ProjectName"][r],
      rep["Wall Hours"][r]>>

Columns == {"VOName", "SiteName", "ProbeName", "ProjectName", "Wall Hours"}

\* The first n values added in order, starting from 0.
RECURSIVE SumInOrder(_, _)
SumInOrder(values, n) ==
    IF n = 0 THEN 0 ELSE FloatAdd(SumInOrder(values, n - 1), values[n])

\* The first n values added from the last to the first.
RECURSIVE SumBackwards(_, _)
SumBackwards(values, n) ==
    IF n = 0 THEN 0 ELSE FloatAdd(SumBackwards(Tail(values), n - 1), values[1])

\* The tree of the end-to-end scenario: A -> VO1 -> P1 -> {Proj1: 10, Proj2: 5}.
ScenarioResponse ==
    [hits |-> <<>>,
     group_Site |-> <<
       [key |-> Str_A, group_VOName |-> <<
          [key |-> Str_VO1, group_ProbeName |-> <<
             [key |-> Str_P1, group_ProjectName |-> <<
                [key |-> Str_Proj1, CoreHours_sum |-> 10],
                [key |-> Str_Proj2, CoreHours_sum |-> 5] >>] >>] >>] >>]

---------------------------------------------------------------------------
\* Properties of format_report, over any response (SpecReport)

\* C1: for every leaf (site s, VO v, probe p, project j, metric h) of the
\* response, a returned report has a data row whose VOName cell is v, whose
\* SiteName cell is s, whose ProbeName cell is p, whose ProjectName cell is j
\* and whose Wall Hours cell is h; and the scenario's tree gives the rows
\* (VO1, A, P1, Proj1, 10), (VO1, A, P1, Proj2, 5), (Total, '', '', '', 15).
C1_RowCellsFollowColumnNames ==
    \A n \in 1..Len(returned) :
        /\ \A pos \in LeafPositions(run_query) :
              LET leaf == LeafAt(run_query, pos)
              IN  \E r \in 1..(Rows(returned[n]) - 1) :
                      RowOf(returned[n], r) = <<leaf[2], leaf[1], leaf[3], leaf[4], leaf[5]>>
        /\ run_query = ScenarioResponse =>
              [r \in 1..Rows(returned[n]) |-> RowOf(returned[n], r)] =
                  << <<Str_VO1, Str_A, Str_P1, Str_Proj1, 10>>,
                     <<Str_VO1, Str_A, Str_P1, Str_Proj2, 5>>,
                     <<Str_Total, Str_Empty, Str_Empty, Str_Empty, 15>> >>

\* C2: the report has the five columns; while the records are consumed the
\* columns have one length, and in a returned report that length is the
\* number of project buckets of the response plus one.
C2_ColumnsInLockStep ==
    /\ pc = "loop" =>
          /\ DOMAIN report = Columns
          /\ \A a \in Columns, b \in Columns : Len(report[a]) = Len(report[b])
    /\ \A n \in 1..Len(returned) :
          /\ DOMAIN returned[n] = Columns
          /\ \A a \in Columns :
                Len(returned[n][a]) = Cardinality(LeafPositions(run_query)) + 1

\* C2's case: a report of three records and the total row was returned.
C2_Witness ==
    /\ returned # <<>>
    /\ Rows(returned[1]) = 4
    /\ Cardinality(LeafPositions(run_query)) = 3

\* C3: the Wall Hours cell of the last row of a returned report is the sum
\* of the Wall Hours cells of the rows before it, added in their order from
\* 0; the last row is not part of the sum.
C3_TotalIsSumOfPrecedingRows ==
    \A n \in 1..Len(returned) :
        LET hours == returned[n]["Wall Hours"]
        IN  hours[Len(hours)] = SumInOrder(hours, Len(hours) - 1)

\* C3's case: a report of three records was returned whose hours add up
\* differently in the opposite order.
C3_Witness ==
    /\ returned # <<>>
    /\ LET hours == returned[1]["Wall Hours"]
       IN  /\ Len(hours) = 4
           /\ hours[4] # SumBackwards(hours, 3)
           /\ hours[4] > hours[1]

\* Whether row r of a report has the cells of the total row.
IsTotalRow(rep, r) ==
    /\ rep["VOName"][r] = Str_Total
    /\ rep["SiteName"][r] = Str_Empty
    /\ rep["ProbeName"][r] = Str_Empty
    /\ rep["ProjectName"][r] = Str_Empty

\* C4: the last row of every returned report is the total row (Total, '',
\* '', '', total), no earlier row is one, and every call returns the same
\* rows: a second call neither repeats data rows nor adds a second total row.
C4_OneTotalRowLastAndFresh ==
    \A n \in 1..Len(returned) :
        LET rep == returned[n]
        IN  /\ IsTotalRow(rep, Rows(rep))
            /\ rep["Wall Hours"][Rows(rep)] = SumInOrder(rep["Wall Hours"], Rows(rep) - 1)
            /\ \A r \in 1..(Rows(rep) - 1) : ~IsTotalRow(rep, r)
            /\ Rows(rep) = Cardinality(LeafPositions(run_query)) + 1
            /\ rep = returned[1]

\* C4's case: format_report has returned twice, with data rows.
C4_Witness ==
    /\ Len(returned) = 2
    /\ Rows(returned[2]) >= 3

\* Whether a response has no project bucket.
NoLeaves(results) == LeafPositions(results) = {}

\* C5: when the response has no project bucket (no site bucket, or only
\* buckets whose branches end in an empty list), the loop of format_report
\* can always leave through the exhausted generator, no row is appended, and
\* the returned report has columns of length 1 holding the total row, with
\* Wall Hours 0.
C5_EmptyResponseGivesOnlyTotalRow ==
    NoLeaves(run_query) =>
        /\ pc = "loop" => (Rows(report) = 0 /\ ENABLED format_report_total)
        /\ \A n \in 1..Len(returned) :
              returned[n] = [name \in Columns |->
                                IF name = "VOName" THEN <<Str_Total>>
                                ELSE IF name = "Wall Hours" THEN <<0>>
                                ELSE <<Str_Empty>>]

\* C5's case: a report was returned for a response with a site bucket, a VO
\* bucket and a probe bucket but no project bucket.
C5_Witness ==
    /\ returned # <<>>
    /\ NoLeaves(run_query)
    /\ \E i \in 1..Len(run_query.group_Site) :
         \E j \in 1..Len(run_query.group_Site[i].group_VOName) :
            run_query.group_Site[i].group_VOName[j].group_ProbeName # <<>>

---------------------------------------------------------------------------
\* Properties of generate, called twice over any response (SpecFlatten)

\* C6: what a caller has received from generate is a prefix of the leaves
\* of the response in depth-first bucket order, each as (site key, VO key,
\* probe key, project key, metric); once the generator is finished it is all
\* of them, one per project bucket.
C6_OneRecordPerLeafDepthFirst ==
    \A c \in Callers :
        /\ IsPrefix(out[c], DepthFirst(run_query))
        /\ gens[c].state = "finished" =>
              /\ out[c] = DepthFirst(run_query)
              /\ Len(out[c]) = Cardinality(LeafPositions(run_query))
        /\ \A n \in 1..Len(out[c]) :
              \E pos \in LeafPositions(run_query) : out[c][n] = LeafAt(run_query, pos)

\* C6's case: a generator has finished over a response whose first site
\* bucket has the second key, after yielding a record of each of two sites.
C6_Witness ==
    \E c \in Callers :
        /\ gens[c].state = "finished"
        /\ Len(out[c]) = 2
        /\ out[c][1][1] = Str_B
        /\ out[c][2][1] = Str_A

\* C7: two calls of generate give the same records in the same order: at any
\* time what one caller has received is a prefix of what the other has, and
\* two finished generators have given the same sequence.
C7_SecondCallGivesSameSequence ==
    \A c \in Callers, d \in Callers :
        /\ IsPrefix(out[c], out[d]) \/ IsPrefix(out[d], out[c])
        /\ (gens[c].state = "finished" /\ gens[d].state = "finished") => out[c] = out[d]

\* C7's case: the first generator was consumed in part (one record) and is
\* still suspended, and the second has finished with two records or more.
C7_Witness ==
    /\ gens["first"].state = "suspended"
    /\ Len(out["first"]) = 1
    /\ gens["second"].state = "finished"
    /\ Len(out["second"]) >= 2

---------------------------------------------------------------------------
\* Properties of the request, over the documents of a cluster (Spec)

\* Whether document d ends in [starttimeq, endtimeq), has a probe name among
\* the pieces of the configured list, and is of resource type Payload.
PassesFilters(d) ==
    /\ d.EndTime # <<>>
    /\ starttimeq <= d.EndTime[1]
    /\ d.EndTime[1] < endtimeq
    /\ d.ProbeName # <<>>
    /\ d.ProbeName[1] \in { split(probes)[i] : i \in 1..Len(split(probes)) }
    /\ d.ResourceType = <<Str_Payload>>

\* The CoreHours, added in document order, of the documents that pass the
\* filters and have the given site, VO and probe, and the given project or,
\* for the project N/A, no project.
GroupHours(site, vo, probe, project) ==
    LET group == SelectSeq(cluster.docs, LAMBDA d :
                    /\ PassesFilters(d)
                    /\ d.SiteName = <<site>>
                    /\ d.ReportableVOName = <<vo>>
                    /\ d.ProbeName = <<probe>>
                    /\ \/ d.ProjectName = <<project>>
                       \/ d.ProjectName = <<>> /\ project = Str_NA
                    /\ d.CoreHours # <<>>)
    IN  SumInOrder([i \in 1..Len(group) |-> group[i].CoreHours[1]], Len(group))

\* C8, as stated: every document that passes the filters and has no
\* ProjectName is in a data row of the returned report whose ProjectName
\* cell is N/A (and whose ProbeName cell is the document's probe).
C8_EveryProjectlessDocumentHasRow ==
    \A n \in 1..Len(returned) :
        \A i \in 1..Len(cluster.docs) :
            LET d == cluster.docs[i]
            IN  (PassesFilters(d) /\ d.ProjectName = <<>>) =>
                    \E r \in 1..(Rows(returned[n]) - 1) :
                        /\ returned[n]["ProjectName"][r] = Str_NA
                        /\ returned[n]["ProbeName"][r] = d.ProbeName[1]

\* C8, amended: every document that passes the filters, has a SiteName and a
\* ReportableVOName and has no ProjectName is in a data row of the returned
\* report whose ProjectName cell is N/A, whose ProbeName cell is its probe,
\* whose VOName and SiteName cells hold its site and VO, and whose Wall Hours
\* cell is the sum of the CoreHours of its group; the row is before the total
\* row, which sums the rows before it.
C8_ProjectlessDocumentGroupedUnderNA ==
    \A n \in 1..Len(returned) :
        /\ \A i \in 1..Len(cluster.docs) :
              LET d == cluster.docs[i]
              IN  (/\ PassesFilters(d)
                   /\ d.ProjectName = <<>>
                   /\ d.SiteName # <<>>
                   /\ d.ReportableVOName # <<>>) =>
                      \E r \in 1..(Rows(returned[n]) - 1) :
                          /\ returned[n]["ProjectName"][r] = Str_NA
                          /\ returned[n]["ProbeName"][r] = d.ProbeName[1]
                          /\ {returned[n]["VOName"][r], returned[n]["SiteName"][r]} =
                                 {d.SiteName[1], d.ReportableVOName[1]}
                          /\ returned[n]["Wall Hours"][r] =
                                 GroupHours(d.SiteName[1], d.ReportableVOName[1],
                                            d.ProbeName[1], Str_NA)
        /\ returned[n]["Wall Hours"][Rows(returned[n])] =
              SumInOrder(returned[n]["Wall Hours"], Rows(returned[n]) - 1)

\* C8's case: a report was returned over a passing document without
\* ProjectName, with site and VO, next to a document of another project.
C8_Witness ==
    /\ returned # <<>>
    /\ Rows(returned[1]) = 3
    /\ \E i \in 1..Len(cluster.docs) :
          LET d == cluster.docs[i]
          IN  /\ PassesFilters(d)
              /\ d.ProjectName = <<>>
              /\ d.SiteName # <<>>
              /\ d.ReportableVOName # <<>>

\* C9: once query() has built the request, the request selects a document
\* exactly when its EndTime is in [starttimeq, endtimeq), its ProbeName is
\* among the pieces of the configured list and its ResourceType is Payload;
\* the request asks for no documents (from 0, size 0) and the response holds
\* none; the aggregations are on SiteName, ReportableVOName, ProbeName and
\* ProjectName in that order with the sum of CoreHours innermost, so that a
\* yielded tuple (a, b, c, d, h) has h the CoreHours of the selected
\* documents of site a, VO b, probe c and project d.
C9_RequestSelectsWindowProbesPayload ==
    s.filters # <<>> =>
        /\ \A i \in 1..Len(cluster.docs) :
              Selected(s, cluster.docs[i]) <=> PassesFilters(cluster.docs[i])
        /\ s.from = 0
        /\ s.size = 0
        /\ gen.state \in {"suspended", "finished"} => gen.results.hits = <<>>
        /\ [i \in 1..Len(s.aggs) |-> s.aggs[i].field] =
              <<"SiteName", "ReportableVOName", "ProbeName", "ProjectName">>
        /\ s.metric.type = "sum"
        /\ s.metric.field = "CoreHours"
        /\ gen.state = "suspended" =>
              LET t == Yielded(gen)
              IN  t[5] = GroupHours(t[1], t[2], t[3], t[4])

\* C9's case: the request was built over a document ending at the start of
\* the range, which it selects, and one ending at its end, which it does not,
\* and the generator has yielded a tuple.
C9_Witness ==
    /\ s.filters # <<>>
    /\ gen.state = "suspended"
    /\ \E i \in 1..Len(cluster.docs), j \in 1..Len(cluster.docs) :
          /\ cluster.docs[i].EndTime = <<starttimeq>>
          /\ Selected(s, cluster.docs[i])
          /\ cluster.docs[j].EndTime = <<endtimeq>>
          /\ cluster.docs[j].ProbeName = cluster.docs[i].ProbeName
          /\ cluster.docs[j].ResourceType = <<Str_Payload>>
          /\ ~Selected(s, cluster.docs[j])

\* C10: when the configured list has no probe name (it is empty, or holds
\* only commas), every returned report holds the total row alone.
C10_NoProbeNamesGivesOnlyTotalRow ==
    (\A i \in 1..Len(probes) : probes[i] = ",") =>
        \A n \in 1..Len(returned) : Rows(returned[n]) = 1

===========================================================================
